---- MODULE Spec2Model ----
(***************************************************************************)
(* Bounding volume hierarchy of blob_game (src/src/bvh.rs): the recursive  *)
(* surface-area split (split_node), its flattening into GPU records        *)
(* (push_node_to_buffer) and the two systems that run them every frame     *)
(* (update_bvh, update_bvh_buffer).                                        *)
(*                                                                         *)
(* Numbers.  An f32 is modelled as an integer of a saturating format: the  *)
(* finite values are -F32Max..F32Max, a result beyond them is +-Inf, and   *)
(* NaN is a value of its own that compares false with everything.  All     *)
(* coordinates of the inputs are even, so that the `* 0.5` of centroid()   *)
(* is exact, as it is for f32 on such values.                              *)
(***************************************************************************)
EXTENDS Integers, Sequences, FiniteSets, TLC

\* Largest number of objects handed to one build.
MaxN == 3

\* Largest finite value of the modelled float format (f32::MAX in the code).
F32Max == 10000

Inf == F32Max + 1
NegInf == 0 - Inf
NaN == F32Max + 2

IsFinite(a) == a # NaN /\ a # Inf /\ a # NegInf

\* Rounding of an exact result into the format: overflow gives an infinity.
Sat(x) == IF x > F32Max THEN Inf ELSE IF x < 0 - F32Max THEN NegInf ELSE x

\* f32 `<`: false as soon as one side is NaN.
FLess(a, b) == a # NaN /\ b # NaN /\ a < b

\* f32 `+`.
FAdd(a, b) ==
    IF a = NaN \/ b = NaN THEN NaN
    ELSE IF (a = Inf /\ b = NegInf) \/ (a = NegInf /\ b = Inf) THEN NaN
    ELSE IF a = Inf \/ b = Inf THEN Inf
    ELSE IF a = NegInf \/ b = NegInf THEN NegInf
    ELSE Sat(a + b)

\* f32 `-`.
FSub(a, b) ==
    IF a = NaN \/ b = NaN THEN NaN
    ELSE IF (a = Inf /\ b = Inf) \/ (a = NegInf /\ b = NegInf) THEN NaN
    ELSE IF a = Inf \/ b = NegInf THEN Inf
    ELSE IF a = NegInf \/ b = Inf THEN NegInf
    ELSE Sat(a - b)

\* f32 `*`.
FMul(a, b) ==
    IF a = NaN \/ b = NaN THEN NaN
    ELSE IF ~IsFinite(a) \/ ~IsFinite(b)
         THEN IF a = 0 \/ b = 0 THEN NaN
              ELSE IF (a > 0) = (b > 0) THEN Inf ELSE NegInf
    ELSE Sat(a * b)

\* `x * 0.5` on an even finite value, an infinity or NaN.
FHalf(a) == IF IsFinite(a) THEN a \div 2 ELSE a

\* f32::min and f32::max: the other operand when one is NaN.
FMin(a, b) == IF a = NaN THEN b ELSE IF b = NaN THEN a ELSE IF a < b THEN a ELSE b
FMax(a, b) == IF a = NaN THEN b ELSE IF b = NaN THEN a ELSE IF a > b THEN a ELSE b

\* f32::total_cmp as "a is ordered at or before b" (positive NaN is last).
TotalLeq(a, b) == a <= b

Axes == 1..3

Vec3(x, y, z) == <<x, y, z>>

Aabb(lo, hi) == [min |-> lo, max |-> hi]

\* Aabb::centroid, componentwise min + (max - min) * 0.5.
Centroid(a) == [k \in Axes |-> FAdd(a.min[k], FHalf(FSub(a.max[k], a.min[k])))]

\* Aabb::total_surface_area.
TotalSurfaceArea(a) ==
    LET e == [k \in Axes |-> FSub(a.max[k], a.min[k])]
    IN  FAdd(FAdd(FMul(FMul(e[1], e[2]), 2), FMul(FMul(e[1], e[3]), 2)),
             FMul(FMul(e[2], e[3]), 2))

\* The outcome of a call that panicked (a failed assert!).
Abort == [abort |-> TRUE]
IsAbort(r) == "abort" \in DOMAIN r

\* Vec3::length() == f32::INFINITY: the dot product overflowed or holds an
\* infinity (sqrt keeps finite values finite and +inf infinite).
LengthIsInfinity(v) ==
    FAdd(FAdd(FMul(v[1], v[1]), FMul(v[2], v[2])), FMul(v[3], v[3])) = Inf

\* The loop of merge_aabbs from element i on, (lo, hi) being min and max so far.
RECURSIVE MergeLoop(_, _, _, _)
MergeLoop(aabbs, i, lo, hi) ==
    IF i > Len(aabbs) THEN Aabb(lo, hi)
    ELSE MergeLoop(aabbs, i + 1,
             [k \in Axes |-> FMin(lo[k], FMin(aabbs[i][2].min[k], aabbs[i][2].max[k]))],
             [k \in Axes |-> FMax(hi[k], FMax(aabbs[i][2].min[k], aabbs[i][2].max[k]))])

\* The loop with max fed from the min corners only.
RECURSIVE MergeLoopMaxOfMins(_, _, _, _)
MergeLoopMaxOfMins(aabbs, i, lo, hi) ==
    IF i > Len(aabbs) THEN Aabb(lo, hi)
    ELSE MergeLoopMaxOfMins(aabbs, i + 1,
             [k \in Axes |-> FMin(lo[k], FMin(aabbs[i][2].min[k], aabbs[i][2].max[k]))],
             [k \in Axes |-> FMax(hi[k], FMax(aabbs[i][2].min[k], aabbs[i][2].min[k]))])

\* The two assert_ne! of merge_aabbs on the merged box m.
MergeChecked(m) ==
    IF LengthIsInfinity(m.min) \/ LengthIsInfinity(m.max) THEN Abort ELSE m

\* merge_aabbs with max.x = max.x.max(min.x.max(min.x)) and so on.
MergeAabbsMaxOfMins(aabbs) ==
    MergeChecked(MergeLoopMaxOfMins(aabbs, 1, Vec3(Inf, Inf, Inf),
                                    Vec3(NegInf, NegInf, NegInf)))

\* merge_aabbs: the merged box, or Abort when one of the two assert_ne! fails.
MergeAabbs(aabbs) ==
    MergeChecked(MergeLoop(aabbs, 1, Vec3(Inf, Inf, Inf), Vec3(NegInf, NegInf, NegInf)))

\* The sum of cost() over the two merged halves.
CostOf(aabbs, index, left, right) ==
    IF IsAbort(left) \/ IsAbort(right) THEN Abort
    ELSE [cost |-> FAdd(FMul(TotalSurfaceArea(left), index),
                        FMul(TotalSurfaceArea(right), Len(aabbs) - index))]

\* cost(aabbs, index), or Abort when a merge panics.
Cost(aabbs, index) ==
    CostOf(aabbs, index, MergeAabbs(SubSeq(aabbs, 1, index)),
           MergeAabbs(SubSeq(aabbs, index + 1, Len(aabbs))))

\* The (usize, f32) pair find_split_index_and_cost returns.
IndexAndCost(i, c) == [index |-> i, cost |-> c]

\* The loop of find_split_index_and_cost taking a later index on equal cost.
RECURSIVE FindLoopLast(_, _, _)
FindStepLast(aabbs, i, min, c) ==
    IF IsAbort(c) THEN Abort
    ELSE FindLoopLast(aabbs, i + 1,
             IF ~FLess(min.cost, c.cost) THEN IndexAndCost(i, c.cost) ELSE min)
FindLoopLast(aabbs, i, min) ==
    IF i >= Len(aabbs) THEN min ELSE FindStepLast(aabbs, i, min, Cost(aabbs, i))

RECURSIVE FindLoop(_, _, _)

\* One turn of the loop, c being cost(aabbs, i).
FindStep(aabbs, i, min, c) ==
    IF IsAbort(c) THEN Abort
    ELSE FindLoop(aabbs, i + 1,
             IF FLess(c.cost, min.cost) THEN IndexAndCost(i, c.cost) ELSE min)

\* The loop `for i in 1..aabbs.len()` of find_split_index_and_cost from i on.
FindLoop(aabbs, i, min) ==
    IF i >= Len(aabbs) THEN min ELSE FindStep(aabbs, i, min, Cost(aabbs, i))

\* find_split_index_and_cost with `<=` in place of `<`.
FindSplitIndexAndCostLast(aabbs) ==
    IF ~(Len(aabbs) > 1) THEN Abort ELSE FindLoopLast(aabbs, 1, IndexAndCost(1, Inf))

\* find_split_index_and_cost with `let mut min = (0, f32::INFINITY)`.
FindSplitIndexAndCostFromZero(aabbs) ==
    IF ~(Len(aabbs) > 1) THEN Abort ELSE FindLoop(aabbs, 1, IndexAndCost(0, Inf))

\* find_split_index_and_cost: its (index, cost), or Abort.
FindSplitIndexAndCost(aabbs) ==
    IF ~(Len(aabbs) > 1) THEN Abort ELSE FindLoop(aabbs, 1, IndexAndCost(1, Inf))

\* slice::sort_by on the centroid of one axis with total_cmp: the stable sort,
\* built by inserting each element after the ones ordered at or before it.
\* One insertion of the stable sort: el goes after the elements ordered at or
\* before it.
InsertSorted(front, el, axis) ==
    LET k == Cardinality({j \in 1..Len(front) :
                 TotalLeq(Centroid(front[j][2])[axis], Centroid(el[2])[axis])})
    IN  SubSeq(front, 1, k) \o <<el>> \o SubSeq(front, k + 1, Len(front))

RECURSIVE SortBy(_, _)
SortBy(s, axis) ==
    IF Len(s) <= 1 THEN s
    ELSE InsertSorted(SortBy(SubSeq(s, 1, Len(s) - 1), axis), s[Len(s)], axis)

\* The choice of the axis with ties going to the earliest axis.
ChooseAxisEarliest(x, y, z) ==
    IF ~FLess(y.cost, x.cost) /\ ~FLess(z.cost, x.cost) THEN 1
    ELSE IF ~FLess(z.cost, y.cost) THEN 2
    ELSE 3

\* The if / else if / else of split_node over the three (index, cost).
ChooseAxis(x, y, z) ==
    IF FLess(x.cost, y.cost) /\ FLess(x.cost, z.cost) THEN 1
    ELSE IF FLess(y.cost, z.cost) THEN 2
    ELSE 3

\* The record of a split made without the last sort_by: the list stays as the
\* sort by z left it.
ChoiceOfNoResort(aabbs, xs, x, ys, y, zs, z, axis) ==
    [entry |-> aabbs, xs |-> xs, ys |-> ys, zs |-> zs,
     x |-> x, y |-> y, z |-> z, axis |-> axis,
     index |-> IF axis = 1 THEN x.index ELSE IF axis = 2 THEN y.index ELSE z.index,
     final |-> zs]

\* The record of one split: the three sorts with their (index, cost), the
\* axis taken, and the list as it is split (after the last sort_by that ran).
ChoiceOf(aabbs, xs, x, ys, y, zs, z, axis) ==
    [entry |-> aabbs, xs |-> xs, ys |-> ys, zs |-> zs,
     x |-> x, y |-> y, z |-> z, axis |-> axis,
     index |-> IF axis = 1 THEN x.index ELSE IF axis = 2 THEN y.index ELSE z.index,
     final |-> IF axis = 1 THEN SortBy(zs, 1)
               ELSE IF axis = 2 THEN SortBy(zs, 2)
               ELSE zs]

ChoiceAfterFind(aabbs, xs, x, ys, y, zs, z) ==
    IF IsAbort(x) \/ IsAbort(y) \/ IsAbort(z) THEN Abort
    ELSE ChoiceOf(aabbs, xs, x, ys, y, zs, z, ChooseAxis(x, y, z))

ChoiceAfterSortZ(aabbs, xs, ys, zs) ==
    ChoiceAfterFind(aabbs, xs, FindSplitIndexAndCost(xs), ys, FindSplitIndexAndCost(ys),
                    zs, FindSplitIndexAndCost(zs))

ChoiceAfterSortY(aabbs, xs, ys) == ChoiceAfterSortZ(aabbs, xs, ys, SortBy(ys, 3))

ChoiceAfterSortX(aabbs, xs) == ChoiceAfterSortY(aabbs, xs, SortBy(xs, 2))

\* What split_node computes for a list of two or more objects before it
\* recurses.
SplitChoice(aabbs) == ChoiceAfterSortX(aabbs, SortBy(aabbs, 1))

Leaf(aabb, entity) == [aabb |-> aabb, kind |-> "Leaf", entity |-> entity]
Branch(aabb, left, right) == [aabb |-> aabb, kind |-> "Branch", left |-> left, right |-> right]

\* split_node.  The result is [node, list, log]: the BvhNode, the slice as the
\* call leaves it (it is sorted in place), and the SplitChoice of every call
\* on two or more objects in call order; or Abort when an assertion fails.
RECURSIVE SplitNode(_)

BranchOf(c, l, r, all, m) ==
    IF IsAbort(m) THEN Abort
    ELSE [node |-> Branch(m, l.node, r.node), list |-> all, log |-> <<c>> \o l.log \o r.log]

BranchAfterRight(c, l, r, all) == BranchOf(c, l, r, all, MergeAabbs(all))

BranchAfterLeft(c, l, r) ==
    IF IsAbort(r) THEN Abort ELSE BranchAfterRight(c, l, r, l.list \o r.list)

SplitAfterChoice(c, l) ==
    IF IsAbort(l) THEN Abort
    ELSE BranchAfterLeft(c, l, SplitNode(SubSeq(c.final, c.index + 1, Len(c.final))))

\* The left call made on the first elements of the list as split_node was
\* given it, not as the sorts left it.
SplitWithLeftOfEntry(c) ==
    IF IsAbort(c) THEN Abort
    ELSE SplitAfterChoice(c, SplitNode(SubSeq(c.entry, 1, c.index)))

SplitWith(c) ==
    IF IsAbort(c) THEN Abort
    ELSE SplitAfterChoice(c, SplitNode(SubSeq(c.final, 1, c.index)))

SplitNode(aabbs) ==
    IF ~(Len(aabbs) > 0) THEN Abort
    ELSE IF Len(aabbs) = 1
    THEN [node |-> Leaf(aabbs[1][2], aabbs[1][1]), list |-> aabbs, log |-> <<>>]
    ELSE SplitWith(SplitChoice(aabbs))

GpuNode(lo, hi, left, right) == [min |-> lo, max |-> hi, left |-> left, right |-> right]

\* The resolver with a miss answered by index 0.
ResolveMissZero(resolver, entity) ==
    IF entity \in DOMAIN resolver THEN resolver[entity] ELSE 0

\* entity_to_index.get(entity).unwrap_or(&EntityBufferIndex(-1)).0, the
\* resolver being the EntityBufferIndex of the entities that have one.
Resolve(resolver, entity) ==
    IF entity \in DOMAIN resolver THEN resolver[entity] ELSE -1

\* The leaf record with the resolved index stored in left.
LeafRecordInLeft(node, resolver) ==
    GpuNode(node.aabb.min, node.aabb.max, Resolve(resolver, node.entity), -1)

\* The GpuNode pushed for a leaf.
LeafRecord(node, resolver) ==
    GpuNode(node.aabb.min, node.aabb.max, -1, Resolve(resolver, node.entity))

\* The GpuNode pushed for a branch before its children are known.
BranchSlot(node) == GpuNode(node.aabb.min, node.aabb.max, 0, 0)

\* The patch with the two indices exchanged.
PatchBranchSwapped(buf, own_index, left_index, right_index) ==
    [buf EXCEPT ![own_index + 1].left = right_index,
                ![own_index + 1].right = left_index]

\* buffer[own_index].left = left_index; buffer[own_index].right = right_index.
\* Record k of the code's Vec (0-based, as stored in left and right) is
\* element k + 1 of the sequence.
PatchBranch(buf, own_index, left_index, right_index) ==
    [buf EXCEPT ![own_index + 1].left = left_index,
                ![own_index + 1].right = right_index]

\* A flattening that emits a branch after its two subtrees.
RECURSIVE PushNodeToBufferPostOrder(_, _, _)
PushPostOrderOwn(node, start, mid, b3) ==
    Append(b3, GpuNode(node.aabb.min, node.aabb.max, start, mid))
PushPostOrderRight(node, start, b2, resolver) ==
    PushPostOrderOwn(node, start, Len(b2), PushNodeToBufferPostOrder(node.right, b2, resolver))
PushNodeToBufferPostOrder(node, buffer, resolver) ==
    IF node.kind = "Leaf"
    THEN Append(buffer, LeafRecord(node, resolver))
    ELSE PushPostOrderRight(node, Len(buffer),
             PushNodeToBufferPostOrder(node.left, buffer, resolver), resolver)

RECURSIVE PushNodeToBuffer(_, _, _)

\* The branch arm once the left subtree is in b2: the right subtree, then the patch.
PushRight(node, own_index, left_index, b2, resolver) ==
    PatchBranch(PushNodeToBuffer(node.right, b2, resolver), own_index, left_index, Len(b2))

\* The branch arm once the own slot is in b1: the left subtree, then the rest.
PushLeft(node, own_index, b1, resolver) ==
    PushRight(node, own_index, Len(b1), PushNodeToBuffer(node.left, b1, resolver), resolver)

\* push_node_to_buffer: the buffer after the call.
PushNodeToBuffer(node, buffer, resolver) ==
    IF node.kind = "Leaf"
    THEN Append(buffer, LeafRecord(node, resolver))
    ELSE PushLeft(node, Len(buffer), Append(buffer, BranchSlot(node)), resolver)

\* BvhTree::default(): a leaf for Entity::from_raw(0) with an all-zero box.
DefaultTree == [root |-> Leaf(Aabb(Vec3(0, 0, 0), Vec3(0, 0, 0)), 0)]

VARIABLES
    objects,    \* world: per CalculateBvh entity, whether it exists and its Aabb component
    rootBoxes,  \* world: the Aabb of each entity update_bvh has spawned
    index,      \* world: the EntityBufferIndex components (the resolver)
    commands,   \* the deferred Commands queued in this frame
    ran,        \* the systems that have run in this frame
    frame,      \* number of the frame
    pc,         \* where the run is
    entities,   \* update_bvh's Local<Vec<(Entity, Aabb)>>
    finished,   \* update_bvh's Local<bool>
    input,      \* history: the list as collected, before split_node sorts it
    splits,     \* history: the SplitChoice of every split_node call of the last build
    built,      \* history: what the last update_bvh did
    tree,       \* the BvhTree resource
    buffer,     \* the BvhBuffer resource: the Vec<GpuNode> of its GpuTree
    material,   \* the bvh buffer the materials hold
    consumed,   \* history: the tree the last update_bvh_buffer flattened
    mergeIn,    \* the argument of a merge_aabbs call
    mergeOut    \* what that call returned

vars == <<objects, rootBoxes, index, commands, ran, frame, pc, entities, finished,
          input, splits, built, tree, buffer, material, consumed, mergeIn, mergeOut>>

worldVars == <<objects, rootBoxes, commands, ran, frame, finished, built, material, consumed>>

-----------------------------------------------------------------------------
(* split_node and push_node_to_buffer as functions of their arguments.      *)

SetMin(S) == CHOOSE x \in S : \A y \in S : x <= y
SetMax(S) == CHOOSE x \in S : \A y \in S : x >= y

Box(x0, y0, z0, x1, y1, z1) == Aabb(Vec3(x0, y0, z0), Vec3(x1, y1, z1))

\* The boxes the inputs are drawn from: small ones, one inverted on x, one
\* that encloses others with the centroid-x of the first, and one whose
\* surface area overflows the format while its corners have finite lengths.
Boxes ==
    { Box(0, 0, 0, 2, 2, 2), Box(10, 0, 0, 12, 2, 2), Box(4, 2, 0, 6, 4, 2),
      Box(0, 10, 0, 2, 12, 2), Box(0, 0, 6, 4, 2, 8), Box(2, 0, 0, 6, 6, 2),
      Box(2, 0, 0, 0, 2, 2),
      Box(-8, -6, -6, 10, 10, 10), Box(-50, -50, -50, 50, 50, 50) }

\* Lists of (Entity, Aabb): entity i is the i-th one collected.
InputLists ==
    UNION { { [i \in 1..n |-> <<i, f[i]>>] : f \in [1..n -> Boxes] } : n \in 0..MaxN }

\* The EntityBufferIndex components the flattening may find: entity i holds
\* i - 1; every entity has one, none has, or exactly one entity has none.
Resolvers(n) ==
    { [e \in D |-> e - 1] : D \in {1..n, {}} \cup { (1..n) \ {m} : m \in 1..n } }

InitBuild ==
    /\ input \in InputLists
    /\ entities = input
    /\ index = <<>>
    /\ pc = "start"
    /\ tree = DefaultTree
    /\ splits = <<>>
    /\ buffer = <<>>
    /\ objects = <<>> /\ rootBoxes = <<>> /\ commands = <<>> /\ ran = {}
    /\ frame = 0 /\ finished = FALSE /\ built = "none" /\ material = <<>>
    /\ consumed = <<>>
    /\ mergeIn = <<>> /\ mergeOut = Abort

\* What the caller of split_node is left with when the call gave r.
SplitNodeGave(r) ==
    IF IsAbort(r)
    THEN /\ pc' = "panicked"
         /\ UNCHANGED <<entities, tree, splits>>
    ELSE /\ pc' = "built"
         /\ entities' = r.list
         /\ tree' = [root |-> r.node]
         /\ splits' = r.log

\* let root = split_node(&mut entities);
CallSplitNode ==
    /\ pc = "start"
    /\ SplitNodeGave(SplitNode(entities))
    /\ UNCHANGED <<worldVars, index, input, buffer, mergeIn, mergeOut>>

\* push_node_to_buffer(&tree.root, &mut nodes, &entity_to_index) on an empty
\* Vec, with the EntityBufferIndex components found at that moment.
CallPushNodeToBuffer ==
    /\ pc = "built"
    /\ \E resolver \in Resolvers(Len(input)) :
          /\ index' = resolver
          /\ buffer' = PushNodeToBuffer(tree.root, <<>>, resolver)
    /\ pc' = "flattened"
    /\ UNCHANGED <<worldVars, input, entities, tree, splits, mergeIn, mergeOut>>

NextBuild == CallSplitNode \/ CallPushNodeToBuffer

SpecBuild == InitBuild /\ [][NextBuild]_vars

-----------------------------------------------------------------------------
(* merge_aabbs as a function of its argument.                               *)

\* Boxes with large and infinite components next to ordinary ones.
MergeBoxes ==
    { Box(0, 0, 0, 2, 2, 2), Box(10, 0, 0, 12, 2, 2),
      Box(0, 0, 0, F32Max, 2, 2), Box(0 - F32Max, 0, 0, 2, 2, 2),
      Box(0, 0, 0, Inf, 2, 2), Box(NegInf, 0, 0, 2, 2, 2) }

MergeLists ==
    UNION { { [i \in 1..n |-> <<i, f[i]>>] : f \in [1..n -> MergeBoxes] } : n \in 0..MaxN }

InitMerge ==
    /\ mergeIn \in MergeLists
    /\ mergeOut = Abort
    /\ pc = "start"
    /\ input = <<>> /\ entities = <<>> /\ index = <<>> /\ tree = DefaultTree
    /\ splits = <<>> /\ buffer = <<>>
    /\ objects = <<>> /\ rootBoxes = <<>> /\ commands = <<>> /\ ran = {}
    /\ frame = 0 /\ finished = FALSE /\ built = "none" /\ material = <<>>
    /\ consumed = <<>>

\* merge_aabbs(mergeIn)
CallMergeAabbs ==
    /\ pc = "start"
    /\ mergeOut' = MergeAabbs(mergeIn)
    /\ pc' = IF IsAbort(MergeAabbs(mergeIn)) THEN "panicked" ELSE "merged"
    /\ UNCHANGED <<worldVars, index, input, entities, tree, splits, buffer, mergeIn>>

NextMerge == CallMergeAabbs

SpecMerge == InitMerge /\ [][NextMerge]_vars

-----------------------------------------------------------------------------
(* The systems of BvhPlugin and RaymarchingPlugin over the frames of the app. *)

\* Number of CalculateBvh entities spawn_debug_voxel creates (16 in the code).
MaxEnts == 2

\* Number of frames followed.
MaxFrames == 3

Ents == 1..MaxEnts

\* The world-space boxes update_bvh_aabb computes: LocalBoundingBox * scale +
\* translation of the cube (-1,-1,-1)-(1,1,1), scale positive.
WorldBoxes == { Box(0, 0, 0, 2, 2, 2), Box(10, 0, 0, 12, 2, 2) }

Systems == {"update_bvh_aabb", "update_bvh", "update_bvh_buffer", "update_material",
            "blob_merger"}

Alive == { e \in Ents : objects[e].alive }

\* The entities in ascending order, as a sequence.
RECURSIVE Ascending(_)
Ascending(S) ==
    IF S = {} THEN <<>>
    ELSE <<SetMin(S)>> \o Ascending(S \ {SetMin(S)})

Command(op, e, v) == [op |-> op, e |-> e, v |-> v]

\* After startup: the entities of spawn_debug_voxel exist, without Aabb and
\* without EntityBufferIndex; BvhTree is the default one; no BvhBuffer yet.
Init ==
    /\ objects = [e \in Ents |-> [alive |-> TRUE, aabb |-> <<>>]]
    /\ rootBoxes = <<>>
    /\ index = <<>>
    /\ commands = <<>>
    /\ ran = {}
    /\ frame = 1
    /\ pc = "update"
    /\ entities = <<>>
    /\ finished = FALSE
    /\ input = <<>>
    /\ splits = <<>>
    /\ built = "none"
    /\ tree = DefaultTree
    /\ buffer = <<>>
    /\ material = <<>>
    /\ consumed = <<>>
    /\ mergeIn = <<>> /\ mergeOut = Abort

CanRun(system) == pc = "update" /\ frame <= MaxFrames /\ system \notin ran

\* The Aabb insertions update_bvh_aabb queues for the entities of S that have
\* no Aabb yet.
RECURSIVE AabbInserts(_, _)
AabbInserts(S, new) ==
    IF S = <<>> THEN <<>>
    ELSE (IF objects[Head(S)].aabb = <<>>
          THEN <<Command("insert_aabb", Head(S), new[Head(S)])>> ELSE <<>>)
         \o AabbInserts(Tail(S), new)

\* update_bvh_aabb: every entity whose Transform or LocalBoundingBox changed
\* gets its new box, in place when it has an Aabb and by a command when not.
\* A new entity counts as changed.
UpdateBvhAabb ==
    /\ CanRun("update_bvh_aabb")
    /\ \E changed \in SUBSET Alive :
          /\ { e \in Alive : objects[e].aabb = <<>> } \subseteq changed
          /\ \E new \in [changed -> WorldBoxes] :
                /\ objects' = [e \in Ents |->
                      IF e \in changed /\ objects[e].aabb # <<>>
                      THEN [objects[e] EXCEPT !.aabb = <<new[e]>>]
                      ELSE objects[e]]
                /\ commands' = commands \o AabbInserts(Ascending(changed), new)
    /\ ran' = ran \cup {"update_bvh_aabb"}
    /\ UNCHANGED <<rootBoxes, index, frame, pc, entities, finished, input, splits, built,
                   tree, buffer, material, consumed, mergeIn, mergeOut>>

\* The (Entity, Aabb) of the entities of S, in order.
RECURSIVE Collect(_)
Collect(S) ==
    IF S = <<>> THEN <<>>
    ELSE <<<<Head(S), objects[Head(S)].aabb[1]>>>> \o Collect(Tail(S))

\* update_bvh after entities has been filled: the early return, a panic of
\* split_node, or the two commands and *finished = true.
UpdateBvhBuilt(collected, r) ==
    IF collected = <<>>
    THEN /\ entities' = <<>>
         /\ built' = "skipped"
         /\ UNCHANGED <<pc, splits, commands, finished>>
    ELSE IF IsAbort(r)
    THEN /\ pc' = "panicked"
         /\ entities' = collected
         /\ UNCHANGED <<built, splits, commands, finished>>
    ELSE /\ entities' = r.list
         /\ splits' = r.log
         /\ built' = "built"
         /\ commands' = commands \o << Command("spawn_root", 0, r.node.aabb),
                                       Command("insert_tree", 0, r.node) >>
         /\ finished' = TRUE
         /\ pc' = pc

UpdateBvhWith(collected) ==
    /\ input' = collected
    /\ UpdateBvhBuilt(collected, IF collected = <<>> THEN Abort ELSE SplitNode(collected))

\* update_bvh
UpdateBvh ==
    /\ CanRun("update_bvh")
    /\ UpdateBvhWith(Collect(Ascending({ e \in Alive : objects[e].aabb # <<>> })))
    /\ ran' = ran \cup {"update_bvh"}
    /\ UNCHANGED <<objects, rootBoxes, index, frame, tree, buffer, material, consumed,
                   mergeIn, mergeOut>>

\* update_bvh_buffer, ordered after update_bvh: flattens the BvhTree resource
\* as it is now and queues the new BvhBuffer.
UpdateBvhBuffer ==
    /\ CanRun("update_bvh_buffer")
    /\ "update_bvh" \in ran
    /\ consumed' = <<tree.root>>
    /\ commands' = commands \o
          << Command("insert_buffer", 0, PushNodeToBuffer(tree.root, <<>>, index)) >>
    /\ ran' = ran \cup {"update_bvh_buffer"}
    /\ UNCHANGED <<objects, rootBoxes, index, frame, pc, entities, finished, input, splits,
                   built, tree, buffer, material, mergeIn, mergeOut>>

\* The EntityBufferIndex insertions of update_material: the i-th blob gets i - 1.
IndexInserts(S) == [i \in 1..Len(S) |-> Command("insert_index", S[i], i - 1)]

\* update_material
UpdateMaterial ==
    /\ CanRun("update_material")
    /\ commands' = commands \o IndexInserts(Ascending(Alive))
    /\ ran' = ran \cup {"update_material"}
    /\ UNCHANGED <<objects, rootBoxes, index, frame, pc, entities, finished, input, splits,
                   built, tree, buffer, material, consumed, mergeIn, mergeOut>>

\* blob_merger: of two blobs close enough the smaller one is despawned.
BlobMerger ==
    /\ CanRun("blob_merger")
    /\ \/ UNCHANGED commands
       \/ \E smaller \in Alive :
             /\ Cardinality(Alive) >= 2
             /\ commands' = Append(commands, Command("despawn", smaller, 0))
    /\ ran' = ran \cup {"blob_merger"}
    /\ UNCHANGED <<objects, rootBoxes, index, frame, pc, entities, finished, input, splits,
                   built, tree, buffer, material, consumed, mergeIn, mergeOut>>

World(o, r, i, t, b, ok) ==
    [objects |-> o, rootBoxes |-> r, index |-> i, tree |-> t, buffer |-> b, ok |-> ok]

\* One command applied to the world w.  An insertion for an entity that no
\* longer exists panics.
ApplyOne(w, c) ==
    IF c.op = "insert_aabb"
    THEN IF w.objects[c.e].alive
         THEN [w EXCEPT !.objects[c.e].aabb = <<c.v>>]
         ELSE [w EXCEPT !.ok = FALSE]
    ELSE IF c.op = "insert_index"
    THEN IF w.objects[c.e].alive
         THEN [w EXCEPT !.index = [e \in DOMAIN w.index \cup {c.e} |->
                                      IF e = c.e THEN c.v ELSE w.index[e]]]
         ELSE [w EXCEPT !.ok = FALSE]
    ELSE IF c.op = "despawn"
    THEN [w EXCEPT !.objects[c.e] = [alive |-> FALSE, aabb |-> <<>>],
                   !.index = [e \in DOMAIN w.index \ {c.e} |-> w.index[e]]]
    ELSE IF c.op = "spawn_root"
    THEN [w EXCEPT !.rootBoxes = Append(w.rootBoxes, c.v)]
    ELSE IF c.op = "insert_tree"
    THEN [w EXCEPT !.tree = [root |-> c.v]]
    ELSE [w EXCEPT !.buffer = c.v]

RECURSIVE ApplyAll(_, _)
ApplyAll(w, cmds) ==
    IF cmds = <<>> \/ ~w.ok THEN w ELSE ApplyAll(ApplyOne(w, Head(cmds)), Tail(cmds))

Applied(w) ==
    /\ objects' = w.objects
    /\ rootBoxes' = w.rootBoxes
    /\ index' = w.index
    /\ tree' = w.tree
    /\ buffer' = w.buffer
    /\ pc' = IF w.ok THEN "postupdate" ELSE "panicked"

\* The command queues are applied once every system of the frame has run.
ApplyCommands ==
    /\ pc = "update"
    /\ ran = Systems
    /\ Applied(ApplyAll(World(objects, rootBoxes, index, tree, buffer, TRUE), commands))
    /\ commands' = <<>>
    /\ UNCHANGED <<ran, frame, entities, finished, input, splits, built, material, consumed,
                   mergeIn, mergeOut>>

\* update_material_buffer, in PostUpdate: every material gets the buffer of
\* BvhBuffer; the next frame follows.
UpdateMaterialBuffer ==
    /\ pc = "postupdate"
    /\ material' = buffer
    /\ pc' = "update"
    /\ ran' = {}
    /\ frame' = frame + 1
    /\ UNCHANGED <<objects, rootBoxes, index, commands, entities, finished, input, splits,
                   built, tree, buffer, consumed, mergeIn, mergeOut>>

Next ==
    \/ UpdateBvhAabb
    \/ UpdateBvh
    \/ UpdateBvhBuffer
    \/ UpdateMaterial
    \/ BlobMerger
    \/ ApplyCommands
    \/ UpdateMaterialBuffer

Spec == Init /\ [][Next]_vars


-----------------------------------------------------------------------------
(* Vocabulary of the properties.                                            *)

\* The nodes of a tree, each before its left subtree, that before its right one.
RECURSIVE PreOrder(_)
PreOrder(node) ==
    IF node.kind = "Leaf" THEN <<node>>
    ELSE <<node>> \o PreOrder(node.left) \o PreOrder(node.right)

RECURSIVE NumLeaves(_)
NumLeaves(node) ==
    IF node.kind = "Leaf" THEN 1 ELSE NumLeaves(node.left) + NumLeaves(node.right)

\* The object ids of the leaves below a node.
RECURSIVE LeafEntities(_)
LeafEntities(node) ==
    IF node.kind = "Leaf" THEN {node.entity}
    ELSE LeafEntities(node.left) \cup LeafEntities(node.right)

\* The AABB the input gives for an object id.
InputAabb(e) == (CHOOSE p \in {input[i] : i \in 1..Len(input)} : p[1] = e)[2]

\* min <= max on every axis, all components finite.
ValidBox(b) == \A k \in Axes : IsFinite(b.min[k]) /\ IsFinite(b.max[k]) /\ b.min[k] <= b.max[k]

ValidInput == \A i \in 1..Len(input) : ValidBox(input[i][2])

\* The min of the mins and the max of the maxes of the input AABBs of a set of objects.
ExactUnion(E) ==
    Aabb([k \in Axes |-> SetMin({InputAabb(e).min[k] : e \in E})],
         [k \in Axes |-> SetMax({InputAabb(e).max[k] : e \in E})])

\* The merge of two boxes.
Union2(a, b) ==
    Aabb([k \in Axes |-> IF a.min[k] <= b.min[k] THEN a.min[k] ELSE b.min[k]],
         [k \in Axes |-> IF a.max[k] >= b.max[k] THEN a.max[k] ELSE b.max[k]])

N == Len(input)

-----------------------------------------------------------------------------
(* Properties of split_node and push_node_to_buffer (SpecBuild).            *)

\* C1: flattening the tree split_node returns for N >= 1 objects gives exactly
\* 2N - 1 records, and record 0 is the root's: it carries the root's box and
\* is a leaf record exactly when the root is a leaf.
C1_FlatLength ==
    pc = "flattened" =>
        /\ N >= 1
        /\ Len(buffer) = 2 * N - 1
        /\ buffer[1].min = tree.root.aabb.min
        /\ buffer[1].max = tree.root.aabb.max
        /\ (buffer[1].left = -1) <=> (tree.root.kind = "Leaf")
        /\ tree.root.kind = "Branch" => buffer[1].left = 1

C1_Witness == pc = "flattened" /\ N >= 3 /\ tree.root.left.kind = "Branch"

C2_NodeOk(n) ==
    /\ n.aabb = ExactUnion(LeafEntities(n))
    /\ n.kind = "Branch" => n.aabb = Union2(n.left.aabb, n.right.aabb)

C2_AllNodes(pre) == \A k \in 1..Len(pre) : C2_NodeOk(pre[k])

C3_BranchOk(pre, k) ==
    LET rec == buffer[k + 1]
    IN  /\ rec.left > k
        /\ rec.right > k
        /\ rec.right = rec.left + (2 * NumLeaves(pre[k + 1].left) - 1)
        /\ rec.left \in 0..(Len(buffer) - 1)
        /\ rec.right \in 0..(Len(buffer) - 1)

C3_AllBranches(pre) ==
    /\ Len(pre) = Len(buffer)
    /\ \A k \in 0..(Len(pre) - 1) : pre[k + 1].kind = "Branch" => C3_BranchOk(pre, k)

\* C3: in the flat array every branch record at index k has left > k and
\* right > k, right = left + the number of records of its left subtree
\* (2m - 1 for m leaves), and both indices lie inside the array.
C3_ChildIndices == pc = "flattened" => C3_AllBranches(PreOrder(tree.root))

C3_Witness ==
    /\ pc = "flattened" /\ N >= 3
    /\ tree.root.left.kind = "Branch"
    /\ buffer[1].right = 4

\* C5: a build whose input holds an AABB with inverted or non-finite bounds
\* fails; it does not return a tree.
C5_InvalidBoundRejected == (pc # "start" /\ ~ValidInput) => pc = "panicked"

C7_RecordOk(pre, full, k) ==
    IF pre[k].kind = "Leaf" /\ pre[k].entity \notin DOMAIN index
    THEN /\ buffer[k].right = -1
         /\ buffer[k].left = full[k].left
         /\ buffer[k].min = full[k].min
         /\ buffer[k].max = full[k].max
    ELSE buffer[k] = full[k]

C7_AllRecords(pre, full) ==
    /\ Len(buffer) = 2 * N - 1
    /\ Len(full) = Len(buffer)
    /\ \A k \in 1..Len(buffer) : C7_RecordOk(pre, full, k)

\* C7: a leaf whose object id has no index gets its record with right = -1,
\* and the flattening still produces all 2N - 1 records, every other record
\* being what it is when every id resolves.
C7_MissKeepsRest ==
    pc = "flattened" =>
        C7_AllRecords(PreOrder(tree.root),
                      PushNodeToBuffer(tree.root, <<>>, [e \in 1..N |-> e - 1]))

C7_Witness ==
    /\ pc = "flattened" /\ N >= 3
    /\ DOMAIN index # {} /\ DOMAIN index # 1..N

C8_LeafOk(pre, k) ==
    LET e == pre[k].entity
    IN  /\ buffer[k].left = -1
        /\ buffer[k].right = IF e \in DOMAIN index THEN index[e] ELSE -1
        /\ buffer[k].min = InputAabb(e).min
        /\ buffer[k].max = InputAabb(e).max

C8_AllLeaves(pre) ==
    /\ Len(pre) = Len(buffer)
    /\ \A k \in 1..Len(pre) :
          /\ pre[k].kind = "Leaf" => C8_LeafOk(pre, k)
          /\ buffer[k].left = -1 => pre[k].kind = "Leaf"

\* C8: every leaf record has left = -1, right = the resolver's answer for the
\* leaf's object id, and the object's input AABB; for N = 1 the tree is one
\* Leaf with the input id and AABB and the flat array is that one record.
C8_LeafRecords ==
    /\ pc = "flattened" => C8_AllLeaves(PreOrder(tree.root))
    /\ (pc \in {"built", "flattened"} /\ N = 1) =>
          tree.root = Leaf(input[1][2], input[1][1])
    /\ (pc = "flattened" /\ N = 1) =>
          buffer = << GpuNode(input[1][2].min, input[1][2].max, -1,
                              IF 1 \in DOMAIN index THEN index[1] ELSE -1) >>

C8_Witness == pc = "flattened" /\ N >= 2 /\ 1 \in DOMAIN index

AxisCost(c, a) == IF a = 1 THEN c.x.cost ELSE IF a = 2 THEN c.y.cost ELSE c.z.cost

\* C9 as stated: at every branch the axis taken has the smallest bestCost and,
\* among the axes that tie on it, is the earliest in the order x, y, z.
C9_EarliestAxisOnTie ==
    \A i \in 1..Len(splits) :
        /\ \A a \in Axes : AxisCost(splits[i], splits[i].axis) <= AxisCost(splits[i], a)
        /\ \A a \in Axes : a < splits[i].axis =>
              AxisCost(splits[i], splits[i].axis) < AxisCost(splits[i], a)

\* C9 as the code has it: at every branch the axis taken has the smallest
\* bestCost and, among the axes that tie on it, is the latest in the order
\* x, y, z (x only if strictly below y and z, y only if strictly below z); for
\* two objects the three costs are equal and the axis is z.
C9_LatestAxisOnTie ==
    \A i \in 1..Len(splits) :
        /\ \A a \in Axes : AxisCost(splits[i], splits[i].axis) <= AxisCost(splits[i], a)
        /\ \A a \in Axes : a > splits[i].axis =>
              AxisCost(splits[i], splits[i].axis) < AxisCost(splits[i], a)
        /\ Len(splits[i].entry) = 2 => splits[i].axis = 3

C9_Witness ==
    /\ pc = "built" /\ N = 3
    /\ splits[1].x.cost = splits[1].y.cost
    /\ splits[1].y.cost < splits[1].z.cost
    /\ splits[1].axis = 2

C10_Costs(list) == [i \in 1..(Len(list) - 1) |-> Cost(list, i).cost]

C10_BestOf(costs, res) ==
    /\ res.index \in DOMAIN costs
    /\ res.cost = costs[res.index]
    /\ \A i \in DOMAIN costs : res.cost <= costs[i]
    /\ \A i \in DOMAIN costs : i < res.index => res.cost < costs[i]

C10_Sorted(list, a) ==
    \A i \in 1..(Len(list) - 1) :
        Centroid(list[i][2])[a] <= Centroid(list[i + 1][2])[a]

\* C10: on a list of N >= 2 objects sorted on an axis, find_split_index_and_cost
\* returns the smallest index in 1..N-1 whose cost is the minimum over
\* 1..N-1, and that cost.
C10_FirstMinimum ==
    pc = "built" =>
        \A i \in 1..Len(splits) :
            /\ C10_Sorted(splits[i].xs, 1) /\ C10_BestOf(C10_Costs(splits[i].xs), splits[i].x)
            /\ C10_Sorted(splits[i].ys, 2) /\ C10_BestOf(C10_Costs(splits[i].ys), splits[i].y)
            /\ C10_Sorted(splits[i].zs, 3) /\ C10_BestOf(C10_Costs(splits[i].zs), splits[i].z)

C10_Witness ==
    /\ pc = "built" /\ N = 3
    /\ Cost(splits[1].xs, 1) = Cost(splits[1].xs, 2)
    /\ splits[1].x.index = 1

\* C13: a build of N >= 1 objects fails no assertion, and every call of
\* split_node on two or more objects splits at an index in 1..n-1 of its n
\* objects, so both sub-lists are non-empty and shorter than n.
C13_SplitIndexInRange ==
    (pc # "start" /\ N >= 1) =>
        /\ pc # "panicked"
        /\ \A i \in 1..Len(splits) :
              /\ Len(splits[i].entry) >= 2
              /\ Len(splits[i].final) = Len(splits[i].entry)
              /\ splits[i].index \in 1..(Len(splits[i].entry) - 1)
              /\ {splits[i].x.index, splits[i].y.index, splits[i].z.index}
                     \subseteq 1..(Len(splits[i].entry) - 1)

\* No cost of the first split is below the infinity the search starts from.
C13_Witness ==
    /\ pc = "built" /\ N = 3
    /\ splits[1].x.cost = Inf /\ splits[1].y.cost = Inf /\ splits[1].z.cost = Inf
    /\ splits[1].index = 1
    /\ Len(splits) = 2

\* The ordering on which the bestCost of the axis taken was computed.
C14_Evaluated(c) == IF c.axis = 1 THEN c.xs ELSE IF c.axis = 2 THEN c.ys ELSE c.zs

C14_Ids(list, from, to) == { list[j][1] : j \in from..to }

\* C14: at every branch the two sub-lists recursed on hold the same objects as
\* the first bestIndex elements and the rest of the ordering on which the
\* bestCost of the axis taken was computed, and the cost of the split made is
\* that bestCost.
C14_RealisedIsEvaluated ==
    \A i \in 1..Len(splits) :
        /\ C14_Ids(splits[i].final, 1, splits[i].index)
              = C14_Ids(C14_Evaluated(splits[i]), 1, splits[i].index)
        /\ Cost(splits[i].final, splits[i].index).cost
              = AxisCost(splits[i], splits[i].axis)

\* The branches of a tree in the order split_node made them, which is the
\* order of the log.
C15_Branches(node) == SelectSeq(PreOrder(node), LAMBDA n : n.kind = "Branch")

\* The 1-based place in the pre-order of the i-th branch.
C15_PlaceOf(pre, b) == CHOOSE k \in 1..Len(pre) : pre[k] = b

C15_BranchOk(b, c, rec) ==
    /\ LeafEntities(b.left) = C14_Ids(c.final, 1, c.index)
    /\ LeafEntities(b.right) = C14_Ids(c.final, c.index + 1, Len(c.final))
    /\ \A l \in LeafEntities(b.left) : \A r \in LeafEntities(b.right) :
          Centroid(InputAabb(l))[c.axis] <= Centroid(InputAabb(r))[c.axis]
    /\ rec.left < rec.right
    /\ buffer[rec.left + 1].min = b.left.aabb.min
    /\ buffer[rec.left + 1].max = b.left.aabb.max
    /\ buffer[rec.right + 1].min = b.right.aabb.min
    /\ buffer[rec.right + 1].max = b.right.aabb.max

C15_AllBranches(pre, bs) ==
    /\ Len(bs) = Len(splits)
    /\ \A i \in 1..Len(bs) : C15_BranchOk(bs[i], splits[i], buffer[C15_PlaceOf(pre, bs[i])])

C15_DifferOnlyInX(a, b) ==
    /\ Centroid(a)[1] # Centroid(b)[1]
    /\ Centroid(a)[2] = Centroid(b)[2]
    /\ Centroid(a)[3] = Centroid(b)[3]

\* C15: at every branch each object below the left child has a centroid
\* coordinate on the axis taken that is at most that of each object below the
\* right child, and the left child is the one whose record the branch's left
\* points to, before the right one; of two objects whose centroids differ
\* only in x, the one with the smaller centroid-x is the left child.
C15_LeftIsLower ==
    pc = "flattened" =>
        /\ C15_AllBranches(PreOrder(tree.root), C15_Branches(tree.root))
        /\ (N = 2 /\ C15_DifferOnlyInX(input[1][2], input[2][2])) =>
              /\ tree.root.left.kind = "Leaf"
              /\ Centroid(tree.root.left.aabb)[1] < Centroid(tree.root.right.aabb)[1]

C15_Witness ==
    /\ pc = "flattened" /\ N = 3
    /\ splits[1].axis = 1
    /\ splits[1].final # splits[1].zs
    /\ splits[1].index = 2

\* The (id, AABB) pairs of the leaves below a node, in order.
RECURSIVE C16_LeafPairs(_)
C16_LeafPairs(node) ==
    IF node.kind = "Leaf" THEN << <<node.entity, node.aabb>> >>
    ELSE C16_LeafPairs(node.left) \o C16_LeafPairs(node.right)

\* s is t in another order.
C16_IsPermutation(s, t) ==
    /\ Len(s) = Len(t)
    /\ \E f \in [1..Len(s) -> 1..Len(s)] :
          /\ \A i, j \in 1..Len(s) : f[i] = f[j] => i = j
          /\ \A i \in 1..Len(s) : s[i] = t[f[i]]

C16_Permutation(pre, leaves) ==
    /\ C16_IsPermutation(leaves, input)
    /\ C16_IsPermutation(entities, input)
    /\ Len(leaves) = N
    /\ Len(pre) - Len(leaves) = N - 1

\* C16: the leaves of the tree split_node returns are the input pairs in some
\* order, each pair once with its own AABB, and the tree has N leaves and
\* N - 1 branches.
C16_LeavesArePermutation ==
    pc = "built" => C16_Permutation(PreOrder(tree.root), C16_LeafPairs(tree.root))

C16_Witness ==
    /\ pc = "built" /\ N = 3
    /\ Len(splits) = 2
    /\ entities # input
    /\ entities[1] = input[3]

-----------------------------------------------------------------------------
(* Properties of merge_aabbs (SpecMerge).                                   *)

FiniteBox(b) == \A k \in Axes : IsFinite(b.min[k]) /\ IsFinite(b.max[k])

\* C6: merge_aabbs aborts on the empty set, never returns a box with an
\* infinite component, and returns on every non-empty set of finite boxes.
C6_MergeTotalOnFinite ==
    pc # "start" =>
        /\ mergeIn = <<>> => pc = "panicked"
        /\ pc = "merged" => FiniteBox(mergeOut)
        /\ (mergeIn # <<>> /\ \A i \in 1..Len(mergeIn) : FiniteBox(mergeIn[i][2])) =>
              pc = "merged"

-----------------------------------------------------------------------------
(* Properties of the frames (Spec).                                         *)

\* C4: a frame whose update_bvh finds zero objects does not end that system
\* by a silent return, and update_bvh_buffer is not handed the degenerate
\* default tree in such a frame.
C4_EmptyBuildFails ==
    (pc = "update" /\ {"update_bvh", "update_bvh_buffer"} \subseteq ran /\ input = <<>>) =>
        (built # "skipped" /\ consumed # <<DefaultTree.root>>)

\* C11: the build and flatten steps leave the external object set as it was:
\* the entities that exist, with their Aabb components, are the ones the
\* other systems made, so update_bvh has added no entity carrying an Aabb,
\* neither in the world nor in its queued commands, after any number of frames.
C11_ObjectSetUnchanged ==
    /\ rootBoxes = <<>>
    /\ \A i \in 1..Len(commands) : commands[i].op # "spawn_root"

\* C12: in a frame where update_bvh built a tree from its snapshot, the tree
\* update_bvh_buffer flattens is that tree, not the default tree and not the
\* tree of an earlier frame.
C12_FlattensThisFramesTree ==
    (pc = "update" /\ {"update_bvh", "update_bvh_buffer"} \subseteq ran /\ built = "built") =>
        consumed = <<SplitNode(input).node>>

====
